---- MODULE Spec2Model ----
(***************************************************************************)
(* The resilient HTTP transport of prefect-cloud:                          *)
(* PrefectHttpxAsyncClient.send / _send_with_retry / _add_csrf_headers     *)
(* (src/prefect_cloud/clients/http.py).                                    *)
(*                                                                         *)
(* Every task (an asyncio task calling client.send) owns a call stack of   *)
(* frames; a frame is one activation of send() together with the           *)
(* _send_with_retry it runs.  A frame is suspended at an await: the        *)
(* underlying httpx send ("send"), anyio.sleep ("sleep") or the nested     *)
(* token fetch started by _add_csrf_headers ("csrf_pre" before the loop,   *)
(* "csrf_retry" inside it).  An action is the code that runs between two   *)
(* awaits of one task.                                                     *)
(*                                                                         *)
(* Time is measured in ticks of 1/TicksPerSecond second and kept relative  *)
(* to the clock: the clock reading is always `now`, and time that passes   *)
(* shifts every stored timestamp towards the past (ShiftTime).             *)
(***************************************************************************)
EXTENDS Integers, Sequences, FiniteSets, TLC

VARIABLES
    tasks,                  \* the tasks that call client.send
    enable_csrf_support,    \* self.enable_csrf_support
    csrf_token,             \* self.csrf_token (NoToken is None)
    csrf_token_expiration,  \* self.csrf_token_expiration (NoExpiration is None)
    raise_on_all_errors,    \* self.raise_on_all_errors
    stack,                  \* per task: the frames of its running send calls
    result,                 \* per task: what its last finished send delivered
    fetch_404,              \* history: some token fetch was answered 404
    httpx_error,            \* the HTTPStatusError given to from_httpx_error
    prefect_error,          \* the PrefectHTTPStatusError it returned
    _context_stack,         \* PrefectCloudClient._context_stack
    _closed,                \* PrefectCloudClient._closed
    _started,               \* PrefectCloudClient._started
    _exit_stack,            \* the calls PrefectCloudClient._exit_stack has received
    blocks,                 \* the open `async with client` blocks: what each was given
    inner_exit,             \* history: an __aexit__ has left the client open
    refused,                \* history: the __aenter__ calls that raised RuntimeError
    _client,                \* BaseAsyncClient._client: the class of the httpx client
    api_call,               \* the running operation of the API client
    requests,               \* the requests that operation has issued, in order
    api_result              \* what the last operation handed its caller

\* the state of PrefectHttpxAsyncClient and of the calls of its send
transport_vars == <<tasks, enable_csrf_support, csrf_token, csrf_token_expiration,
                    raise_on_all_errors, stack, result, fetch_404>>

\* the state of PrefectCloudClient and of the error enrichment
client_vars == <<httpx_error, prefect_error, _context_stack, _closed, _started,
                 _exit_stack, blocks, inner_exit, refused>>

\* the state of the API methods built on BaseAsyncClient.request
api_vars == <<_client, api_call, requests, api_result>>

vars == <<transport_vars, client_vars, api_vars>>

----------------------------------------------------------------------------
(* Program constants                                                       *)

PREFECT_CLIENT_MAX_RETRIES == 5

PREFECT_CLIENT_RETRY_EXTRA_CODES == {}

\* PREFECT_CLIENT_RETRY_JITTER_FACTOR = 0.2 = 1 / TicksPerSecond: with a tick of
\* one fifth of a second every jitter bound of a whole-second delay is a
\* whole number of ticks.
TicksPerSecond == 5

\* a slip: 500 listed among the retryable codes
retry_codes_with_500 == {429, 503, 502, 408, 500}

\* retry_codes as send() passes them to _send_with_retry
retry_codes == {429, 503, 502, 408} \cup PREFECT_CLIENT_RETRY_EXTRA_CODES

\* a slip: the cancellation of the task is caught like a timeout
retry_exceptions_with_cancelled ==
    {"ReadTimeout", "PoolTimeout", "ConnectTimeout", "ReadError",
     "WriteError", "RemoteProtocolError", "LocalProtocolError", "CancelledError"}

\* retry_exceptions as send() passes them to _send_with_retry
retry_exceptions ==
    {"ReadTimeout", "PoolTimeout", "ConnectTimeout", "ReadError",
     "WriteError", "RemoteProtocolError", "LocalProtocolError"}

HTTP_403_FORBIDDEN == 403

HTTP_404_NOT_FOUND == 404

HTTP_422_UNPROCESSABLE_ENTITY == 422

----------------------------------------------------------------------------
(* Bounds of the model                                                     *)

\* token strings are 1..NumTokens; the server issues one that the client
\* holds nowhere (a string the client has forgotten is as good as new)
NumTokens == 3

\* the longest token lifetime the server grants, in ticks
MaxTTL == 6

\* the deepest nesting of send calls that is explored
MaxDepth == 2

\* the history counter of token fetches stops here
MaxFetchCount == 2

\* the largest number of concurrently running tasks
MaxTasks == 2

AllTasks == 1..MaxTasks

\* the attempts one call makes in the runs with two tasks
MaxConcurrentTries == 2

----------------------------------------------------------------------------
(* Values                                                                  *)

NoToken == 0

NoExpiration == -2

NoHeader == -1

NoDelay == -1

\* datetime.now(timezone.utc): the origin of the relative time axis
now == 0

Max(a, b) == IF a >= b THEN a ELSE b

\* a timestamp after d ticks have passed; everything in the past is alike
ShiftTime(ts, d) ==
    IF ts = NoExpiration THEN NoExpiration ELSE Max(ts - d, now - 1)

Methods == {"GET", "POST"}

\* str.lower on the request methods
lower(method) ==
    CASE method = "GET" -> "get"
      [] method = "HEAD" -> "head"
      [] method = "OPTIONS" -> "options"
      [] method = "POST" -> "post"
      [] method = "PUT" -> "put"
      [] method = "PATCH" -> "patch"
      [] method = "DELETE" -> "delete"
      [] OTHER -> method

is_change_request(method) == lower(method) \in {"post", "put", "patch", "delete"}

\* response bodies the server sends
TokenJson == "{token, expiration}"

InvalidCsrfBody == "{detail: Invalid CSRF token or client identifier.}"

CsrfDisabledBody == "{detail: CSRF protection is disabled.}"

OtherBody == "{detail: other}"

\* `marker in text` on the bodies above
Contains(text, marker) ==
    CASE marker = "Invalid CSRF token" -> text = InvalidCsrfBody
      [] marker = "CSRF protection is disabled." -> text = CsrfDisabledBody
      [] OTHER -> FALSE

\* a Response; status 0 is None.  token/expiration are the fields of a
\* token body; id is the attempt that received it.
NoResponse ==
    [status |-> 0, text |-> "", retry_after |-> NoHeader,
     token |-> NoToken, expiration |-> NoExpiration, id |-> 0]

IsNone(response) == response.status = 0

\* an exception; type "" is none.  status/text are exc.response of an
\* HTTPStatusError; id is the attempt whose send raised it (0 otherwise).
NoExc == [type |-> "", status |-> 0, text |-> "", id |-> 0]

NoHeaders == [token |-> NoToken, expiration |-> NoExpiration, client |-> FALSE]

----------------------------------------------------------------------------
(* The environment: what the underlying httpx send can produce             *)

\* lifetimes the server grants, in ticks: one that no backoff sleep leaves
\* unexpired, and one that outlasts a Retry-After sleep of one second
TTLs == {1, MaxTTL}

\* exception types the transport raises in the model: one retryable
\* timeout, and two that are not listed in retry_exceptions
ExceptionTypes == {"ReadTimeout", "WriteTimeout", "ConnectError"}

Resp(status, text, retry_after) ==
    [status |-> status, text |-> text, retry_after |-> retry_after,
     token |-> NoToken, expiration |-> NoExpiration, id |-> 0]

\* the token strings held somewhere in the client: the cache, the headers
\* of a request, a response being handled
UsedTokens ==
    {csrf_token}
    \cup UNION {UNION {{stack[t][i].headers.token, stack[t][i].prev_token,
                        stack[t][i].response.token} : i \in 1..Len(stack[t])} :
                t \in AllTasks}

FreeTokens == (1..NumTokens) \ UsedTokens

\* GET /csrf-token answered with a new token that expires after the fetch
TokenResponses ==
    IF FreeTokens = {} THEN {}
    ELSE LET new == CHOOSE k \in FreeTokens : \A j \in FreeTokens : k <= j
         IN  {[status |-> 200, text |-> TokenJson, retry_after |-> NoHeader,
               token |-> new, expiration |-> now + ttl, id |-> 0] : ttl \in TTLs}

PlainResponses ==
    {Resp(200, OtherBody, NoHeader),
     Resp(403, InvalidCsrfBody, NoHeader),
     Resp(403, OtherBody, NoHeader),
     Resp(404, OtherBody, NoHeader),
     Resp(422, CsrfDisabledBody, NoHeader),
     Resp(422, OtherBody, NoHeader),
     Resp(500, OtherBody, NoHeader),
     Resp(503, OtherBody, NoHeader),
     Resp(429, OtherBody, 1)}

\* kind "response" carries response, kind "exception" carries exc
Outcomes(kind) ==
    {[kind |-> "response", response |-> r, exc |-> NoExc] :
        r \in PlainResponses \cup (IF kind = "token" THEN TokenResponses ELSE {})}
    \cup
    {[kind |-> "exception", response |-> NoResponse,
      exc |-> [type |-> ty, status |-> 0, text |-> "", id |-> 0]] :
        ty \in ExceptionTypes}

----------------------------------------------------------------------------
(* Frames                                                                  *)

\* The state of one send() call.  Program state: method, try_count,
\* response, exc_info, retry_seconds, headers (request.headers), and how
\* the call ended (outcome, exc).  History, written only: sends, sleeps,
\* fetches (token fetches started, up to MaxFetchCount), only_retry (every
\* attempt so far got a retryable status), prev_token (the token the last
\* answered attempt carried), sent_expired (the last attempt was sent with
\* an expired token), fetch_signal (the last token fetch was answered 404
\* or 422-disabled), stale_at_start (the call found the cached token
\* expired; kept until its first attempt is answered), after_404 (the call
\* began after a token fetch had been answered 404), raised_in, jitter (the
\* jitter the sleep it is in was given: "bounded", "clamped" or "none").
NewFrame(kind, method, stale, after404) ==
    [kind |-> kind, method |-> method, pc |-> "start",
     try_count |-> 0, response |-> NoResponse, exc_info |-> NoExc,
     retry_seconds |-> NoDelay, headers |-> NoHeaders,
     outcome |-> "", exc |-> NoExc,
     sends |-> 0, sleeps |-> 0, fetches |-> 0, only_retry |-> TRUE,
     prev_token |-> NoToken, sent_expired |-> FALSE, fetch_signal |-> FALSE,
     stale_at_start |-> stale, after_404 |-> after404, raised_in |-> "",
     jitter |-> ""]

\* one more token fetch in the history counter
CountUp(n) == IF n < MaxFetchCount THEN n + 1 ELSE n

Top(s) == s[Len(s)]

Below(s) == SubSeq(s, 1, Len(s) - 1)

\* `return response` / `raise` out of _send_with_retry
Done(f, outcome, exc, where) ==
    [f EXCEPT !.pc = "done", !.outcome = outcome, !.exc = exc,
              !.raised_in = where]

----------------------------------------------------------------------------
(* Backoff (http.py 182-201)                                               *)

\* utilities.math.bounded_poisson_interval(lower_bound, upper_bound): a value between
\* the two bounds; the model draws the two ends
bounded_poisson_interval(lower_bound, upper_bound) == {lower_bound, upper_bound}

\* utilities.math.clamped_poisson_interval(average, clamping_factor) with
\* clamping_factor = PREFECT_CLIENT_RETRY_JITTER_FACTOR
clamped_poisson_interval(average) ==
    bounded_poisson_interval(Max(0, average - average \div TicksPerSecond),
                             average + average \div TicksPerSecond)

HasRetryAfter(response) == response.retry_after # NoHeader

\* a slip: the back-off grows linearly
BaseDelayLinear(f, got_response) ==
    IF got_response /\ HasRetryAfter(f.response)
    THEN f.response.retry_after * TicksPerSecond
    ELSE (2 * f.try_count) * TicksPerSecond

\* retry_seconds before jitter, in ticks; got_response: this attempt
\* returned a response (the try's else branch ran)
BaseDelay(f, got_response) ==
    IF got_response /\ HasRetryAfter(f.response)
    THEN f.response.retry_after * TicksPerSecond
    ELSE (2 ^ f.try_count) * TicksPerSecond

\* a slip: symmetrical jitter also around a Retry-After value
DelaysSymmetric(f, got_response) ==
    clamped_poisson_interval(BaseDelay(f, got_response))

\* the branch of "Add jitter" (http.py 191-201) that runs
JitterBranch(f, got_response) ==
    IF BaseDelay(f, got_response) > 0 /\ TicksPerSecond > 0   \* jitter_factor > 0
    THEN IF ~IsNone(f.response) /\ HasRetryAfter(f.response)
         THEN "bounded"
         ELSE "clamped"
    ELSE "none"

\* the values retry_seconds can have when anyio.sleep is called
Delays(f, got_response) ==
    LET base == BaseDelay(f, got_response)
        branch == JitterBranch(f, got_response)
    IN  IF branch = "bounded"
        THEN bounded_poisson_interval(base, base + base \div TicksPerSecond)
        ELSE IF branch = "clamped"
        THEN clamped_poisson_interval(base)
        ELSE {base}

\* the frame suspended in anyio.sleep(retry_seconds)
ToSleep(f, got_response) ==
    {[f EXCEPT !.pc = "sleep", !.retry_seconds = d,
               !.jitter = JitterBranch(f, got_response)] :
        d \in Delays(f, got_response)}

----------------------------------------------------------------------------
(* The retry loop (http.py 157-224)                                        *)

\* a slip: the loop bound off by one
LoopContinuesOffByOne(try_count) == try_count < PREFECT_CLIENT_MAX_RETRIES

\* while try_count <= PREFECT_CLIENT_MAX_RETRIES
LoopContinues(try_count) == try_count <= PREFECT_CLIENT_MAX_RETRIES

\* a slip: the last retryable exception is swallowed like the others
RaiseNever(try_count) == FALSE

\* a slip: the retryable exception is re-raised one attempt early
RaiseEarly(try_count) == try_count >= PREFECT_CLIENT_MAX_RETRIES

\* except retry_exceptions: if try_count > PREFECT_CLIENT_MAX_RETRIES: raise
RaiseOnExhaustion(try_count) == try_count > PREFECT_CLIENT_MAX_RETRIES

\* a slip: the rejected token is kept
TokenKept(token) == token

\* self.csrf_token = None after a CSRF rejection
TokenAfterRejection(token) == NoToken

\* the loop head: either the next attempt is sent, or the loop is left and
\* the last response is returned (the assertion fails when there is none)
NextIteration(f, enabled) ==
    IF LoopContinues(f.try_count)
    THEN [f EXCEPT !.try_count = @ + 1, !.retry_seconds = NoDelay,
                   !.exc_info = NoExc, !.pc = "send", !.sends = @ + 1,
                   !.sent_expired =
                       /\ enabled
                       /\ is_change_request(f.method)
                       /\ f.headers.token # NoToken
                       /\ now > f.headers.expiration]
    ELSE IF IsNone(f.response)
         THEN Done(f, "raised",
                   [type |-> "AssertionError", status |-> 0, text |-> "", id |-> 0],
                   "assert")
         ELSE Done(f, "returned", NoExc, "")

----------------------------------------------------------------------------
(* _add_csrf_headers (http.py 274-310)                                     *)

\* a slip: the expiration is not looked at
NeedsTokenIgnoringExpiry(token, expiration) == token = NoToken

\* not self.csrf_token or (self.csrf_token_expiration and now > ...)
NeedsToken(token, expiration) ==
    token = NoToken \/ (expiration # NoExpiration /\ now > expiration)

\* what _add_csrf_headers does up to its first await
AddCsrfDecision(enabled, token, expiration) ==
    IF ~enabled THEN "return"
    ELSE IF NeedsToken(token, expiration) THEN "fetch"
    ELSE "attach"

\* request.headers["Prefect-Csrf-Token"] = self.csrf_token
\* request.headers["Prefect-Csrf-Client"] = str(self.csrf_client_id)
Attach(f, token, expiration) ==
    [f EXCEPT !.headers =
        [token |-> token, expiration |-> expiration, client |-> TRUE]]

\* send(request) up to its first await: the frames it puts on the stack.
\* A mutating request with CSRF support enabled first runs _add_csrf_headers,
\* which either attaches the cached token or starts send(token_request).
RECURSIVE BeginSend(_, _, _, _, _, _)
BeginSend(kind, method, enabled, token, expiration, after404) ==
    LET f0 == NewFrame(kind, method,
                       /\ enabled
                       /\ is_change_request(method)
                       /\ token # NoToken
                       /\ expiration # NoExpiration
                       /\ now > expiration,
                       after404)
        decision == AddCsrfDecision(enabled, token, expiration)
    IN  IF enabled /\ is_change_request(method)
        THEN IF decision = "fetch"
             THEN <<[f0 EXCEPT !.pc = "csrf_pre", !.fetches = CountUp(@)]>>
                  \o BeginSend("token", "GET", enabled, token, expiration, after404)
             ELSE IF decision = "attach"
             THEN <<NextIteration(Attach(f0, token, expiration), enabled)>>
             ELSE <<NextIteration(f0, enabled)>>
        ELSE <<NextIteration(f0, enabled)>>

----------------------------------------------------------------------------
(* One attempt's outcome (http.py 162-183)                                 *)

\* a slip: every 403 is taken for a CSRF rejection
Any403(response) == response.status = HTTP_403_FORBIDDEN

\* a 403 whose text holds the marker "Invalid CSRF token"
IsCsrfRejection(response) ==
    /\ response.status = HTTP_403_FORBIDDEN
    /\ Contains(response.text, "Invalid CSRF token")

\* The code that runs when `await send(request)` ends with outcome o, up to
\* the next await or the end of _send_with_retry: the frames that replace
\* the top frame, and self.csrf_token.
HandleOutcome(f, o, enabled, token, expiration, after404) ==
    LET g == [f EXCEPT !.prev_token = f.headers.token,
                       !.stale_at_start = FALSE,
                       !.only_retry = @ /\ o.kind = "response"
                                        /\ o.response.status \in {408, 429, 502, 503}]
        e == [o.exc EXCEPT !.id = f.try_count]
        r == [o.response EXCEPT !.id = f.try_count]
        gr == [g EXCEPT !.response = r]
        cleared == TokenAfterRejection(token)
        decision == AddCsrfDecision(enabled, cleared, expiration)
    IN  IF o.kind = "exception"
        THEN IF e.type \in retry_exceptions
             THEN IF RaiseOnExhaustion(f.try_count)
                  THEN {[top |-> <<Done(g, "raised", e, "send")>>, csrf_token |-> token]}
                  ELSE {[top |-> <<s>>, csrf_token |-> token] :
                           s \in ToSleep([g EXCEPT !.exc_info = e], FALSE)}
             ELSE {[top |-> <<Done(g, "raised", e, "send")>>, csrf_token |-> token]}
        ELSE IF IsCsrfRejection(r)
             THEN IF decision = "fetch"
                  THEN {[top |-> <<[gr EXCEPT !.pc = "csrf_retry", !.fetches = CountUp(@)]>>
                                 \o BeginSend("token", "GET", enabled, cleared,
                                              expiration, after404),
                         csrf_token |-> cleared]}
                  ELSE IF decision = "attach"
                  THEN {[top |-> <<s>>, csrf_token |-> cleared] :
                           s \in ToSleep(Attach(gr, cleared, expiration), TRUE)}
                  ELSE {[top |-> <<s>>, csrf_token |-> cleared] : s \in ToSleep(gr, TRUE)}
             ELSE IF r.status \notin retry_codes
             THEN {[top |-> <<Done(gr, "returned", NoExc, "")>>, csrf_token |-> token]}
             ELSE {[top |-> <<s>>, csrf_token |-> token] : s \in ToSleep(gr, TRUE)}

----------------------------------------------------------------------------
(* The end of send (http.py 266-272) and of _add_csrf_headers (287-310)    *)

\* httpx.Response.is_success
IsSuccess(status) == 200 <= status /\ status <= 299

NoResult == [kind |-> "none", response |-> NoResponse, exc |-> NoExc]

\* a slip: raise_for_status() is called whatever raise_on_all_errors says
DeliveredAlwaysRaising(c, raising) ==
    IF c.outcome = "raised"
    THEN [kind |-> "raised", response |-> NoResponse, exc |-> c.exc]
    ELSE IF ~(200 <= c.response.status /\ c.response.status <= 299)
    THEN [kind |-> "raised", response |-> NoResponse,
          exc |-> [type |-> "PrefectHTTPStatusError", status |-> c.response.status,
                   text |-> c.response.text, id |-> c.response.id]]
    ELSE [kind |-> "returned", response |-> c.response, exc |-> NoExc]

\* what send() hands its caller once _send_with_retry has ended as frame c:
\* response.raise_for_status() when raise_on_all_errors, else the response
Delivered(c, raising) ==
    IF c.outcome = "raised"
    THEN [kind |-> "raised", response |-> NoResponse, exc |-> c.exc]
    ELSE IF raising /\ ~IsSuccess(c.response.status)
    THEN [kind |-> "raised", response |-> NoResponse,
          exc |-> [type |-> "PrefectHTTPStatusError", status |-> c.response.status,
                   text |-> c.response.text, id |-> c.response.id]]
    ELSE [kind |-> "returned", response |-> c.response, exc |-> NoExc]

\* CsrfToken.model_validate(token_response.json()) succeeds
IsTokenBody(response) == response.text = TokenJson

\* a slip: what was cached when the fetch began is used, not what it returned
TokenFromCacheBefore(response, token, expiration) ==
    [token |-> token, expiration |-> expiration]

\* self.csrf_token = token.token; self.csrf_token_expiration =
\* token.expiration: the token that is cached and then attached
TokenFromResponse(response, token, expiration) ==
    [token |-> response.token, expiration |-> response.expiration]

\* _add_csrf_headers of frame p after `await self.send(token_request)`
\* delivered d, then _send_with_retry of p up to its next await: the frame
\* that replaces p, and the client's CSRF fields.  signal: the fetch was
\* answered with 404 or with 422 and the disabled marker (history).
ContinueAfterFetch(p, d, signal, enabled, token, expiration) ==
    LET ps == [p EXCEPT !.fetch_signal = signal]
        old_server == d.exc.status = HTTP_404_NOT_FOUND
        unconfigured_server ==
            /\ d.exc.status = HTTP_422_UNPROCESSABLE_ENTITY
            /\ Contains(d.exc.text, "CSRF protection is disabled.")
        Resume(q, en) ==
            IF q.pc = "csrf_pre" THEN {NextIteration(q, en)} ELSE ToSleep(q, TRUE)
        Config(q, en, tok, exp) ==
            [top |-> <<q>>, enable_csrf_support |-> en, csrf_token |-> tok,
             csrf_token_expiration |-> exp]
    IN  IF d.kind = "raised"
        THEN IF d.exc.type = "PrefectHTTPStatusError"
                /\ (old_server \/ unconfigured_server)
             THEN {Config(q, FALSE, token, expiration) : q \in Resume(ps, FALSE)}
             ELSE {Config(Done(ps, "raised", d.exc, "csrf"), enabled, token, expiration)}
        ELSE IF IsTokenBody(d.response)
             THEN LET new == TokenFromResponse(d.response, token, expiration)
                  IN  {Config(q, enabled, new.token, new.expiration) :
                          q \in Resume(Attach(ps, new.token, new.expiration), enabled)}
             ELSE {Config(Done(ps, "raised",
                               [type |-> "ValidationError", status |-> 0,
                                text |-> "", id |-> 0], "csrf"),
                          enabled, token, expiration)}

----------------------------------------------------------------------------
(* PrefectHTTPStatusError.from_httpx_error (http.py 37-58)                 *)

\* the newline character
NL == "\n"

\* the characters of an error message
Chars == {"E", "i", NL}

\* the longest error message, in characters
MaxMessageLen == 4

\* the messages str(httpx_error) can be: strings are sequences of characters
RECURSIVE Strings(_)
Strings(n) ==
    IF n = 0 THEN {<<>>}
    ELSE Strings(n - 1)
         \cup {Append(m, c) : m \in {x \in Strings(n - 1) : Len(x) = n - 1}, c \in Chars}

\* str.split("\n"): the pieces between the newlines, at least one piece
RECURSIVE split(_)
split(text) ==
    IF \A i \in 1..Len(text) : text[i] # NL
    THEN <<text>>
    ELSE LET i == CHOOSE k \in 1..Len(text) :
                     text[k] = NL /\ \A j \in 1..(k - 1) : text[j] # NL
         IN  <<SubSeq(text, 1, i - 1)>> \o split(SubSeq(text, i + 1, Len(text)))

\* "\n".join(components)
RECURSIVE join(_)
join(components) ==
    IF components = <<>> THEN <<>>
    ELSE IF Len(components) = 1 THEN components[1]
    ELSE components[1] \o <<NL>> \o join(Tail(components))

\* Python values a body parses to: kind, size (the length of a container
\* or string, the value of a number or bool) and what str() shows
None == [kind |-> "None", size |-> 0, str |-> "None"]

\* the response bodies of the model
Bodies ==
    {"{\"detail\": \"Not Found\"}", "[\"error\"]", "{}", "[]", "null", "0",
     "Internal Server Error", ""}

\* response.json(): ok is FALSE when json.loads raises
json(text) ==
    CASE text = "{\"detail\": \"Not Found\"}" ->
             [ok |-> TRUE,
              value |-> [kind |-> "dict", size |-> 1, str |-> "{'detail': 'Not Found'}"]]
      [] text = "[\"error\"]" ->
             [ok |-> TRUE, value |-> [kind |-> "list", size |-> 1, str |-> "['error']"]]
      [] text = "{}" ->
             [ok |-> TRUE, value |-> [kind |-> "dict", size |-> 0, str |-> "{}"]]
      [] text = "[]" ->
             [ok |-> TRUE, value |-> [kind |-> "list", size |-> 0, str |-> "[]"]]
      [] text = "null" -> [ok |-> TRUE, value |-> None]
      [] text = "0" ->
             [ok |-> TRUE, value |-> [kind |-> "int", size |-> 0, str |-> "0"]]
      [] OTHER -> [ok |-> FALSE, value |-> None]

\* bool(value), as `if details:` tests it
bool(value) ==
    CASE value.kind = "None" -> FALSE
      [] OTHER -> value.size # 0

\* f"Response: {details}", one piece of text
ResponseLine(details) == <<"Response: ", details.str>>

NoError == [type |-> "", message |-> <<>>, request |-> "", response |-> ""]

\* the errors raise_for_status() of httpx can raise
HTTPStatusErrors ==
    {[type |-> "HTTPStatusError", message |-> m, request |-> "request",
      response |-> b] : m \in Strings(MaxMessageLen), b \in Bodies}

\* PrefectHTTPStatusError.from_httpx_error(httpx_error)
from_httpx_error(error) ==
    LET parsed == json(error.response)
        details == IF parsed.ok THEN parsed.value ELSE None
        pieces == split(error.message)
        error_message == Head(pieces)
        more_info == Tail(pieces)
        message_components ==
            IF bool(details)
            THEN <<error_message, ResponseLine(details)>> \o more_info
            ELSE <<error_message>> \o more_info
    IN  [type |-> "PrefectHTTPStatusError",
         message |-> join(message_components),
         request |-> error.request,
         response |-> error.response]

\* PrefectResponse.raise_for_status: httpx raises error, and the error is
\* enriched.  The function keeps no state, so one error per run shows all
\* it does.
RaiseForStatus(error) ==
    /\ httpx_error = NoError
    /\ httpx_error' = error
    /\ prefect_error' = from_httpx_error(error)
    /\ UNCHANGED <<_context_stack, _closed, _started, _exit_stack, blocks, inner_exit,
                   refused>>
    /\ UNCHANGED transport_vars
    /\ UNCHANGED api_vars

----------------------------------------------------------------------------
(* PrefectCloudClient.__aenter__ / __aexit__ (client.py 196-240)           *)

\* the deepest nesting of `async with client` blocks
MaxNesting == 3

\* the most __aenter__ calls on a closed client
MaxRefused == 2

\* the calls self._exit_stack has received: __aenter__, __aexit__, and
\* enter_async_context(self._client)
NewExitStack == [aenter |-> 0, aexit |-> 0, entered_client |-> 0]

\* PrefectCloudClient.__init__ and no error enriched yet
InitClient ==
    /\ httpx_error = NoError
    /\ prefect_error = NoError
    /\ _context_stack = 0
    /\ _closed = FALSE
    /\ _started = FALSE
    /\ _exit_stack = NewExitStack
    /\ blocks = <<>>
    /\ inner_exit = FALSE
    /\ refused = 0

\* a slip: the exit stack is entered on every entry
StartedNever(started) == FALSE

\* if self._started: return self
AlreadyStarted(started) == started

\* a slip: a closed client is entered like an open one
IsClosedNever(closed) == FALSE

\* if self._closed: raise RuntimeError(...)
IsClosed(closed) == closed

\* `async with client` begins: __aenter__ runs and, unless it raises the
\* RuntimeError of a closed client, the block is given what it returns
AEnter ==
    /\ Len(blocks) < MaxNesting
    /\ IF IsClosed(_closed)
       THEN /\ refused < MaxRefused
            /\ refused' = refused + 1
            /\ UNCHANGED <<_context_stack, _started, _exit_stack, blocks>>
       ELSE /\ _context_stack' = _context_stack + 1
            /\ IF AlreadyStarted(_started)
               THEN UNCHANGED <<_exit_stack, _started>>
               ELSE /\ _exit_stack' = [_exit_stack EXCEPT !.aenter = @ + 1,
                                                           !.entered_client = @ + 1]
                    /\ _started' = TRUE
            /\ blocks' = Append(blocks, "self")
            /\ UNCHANGED refused
    /\ UNCHANGED <<_closed, inner_exit, httpx_error, prefect_error>>
    /\ UNCHANGED transport_vars
    /\ UNCHANGED api_vars

\* the innermost `async with client` block ends: __aexit__ runs
AExit ==
    /\ blocks # <<>>
    /\ _context_stack' = _context_stack - 1
    /\ IF _context_stack - 1 > 0
       THEN /\ inner_exit' = TRUE
            /\ UNCHANGED <<_closed, _exit_stack>>
       ELSE /\ _closed' = TRUE
            /\ _exit_stack' = [_exit_stack EXCEPT !.aexit = @ + 1]
            /\ UNCHANGED inner_exit
    /\ blocks' = SubSeq(blocks, 1, Len(blocks) - 1)
    /\ UNCHANGED <<_started, httpx_error, prefect_error, refused>>
    /\ UNCHANGED transport_vars
    /\ UNCHANGED api_vars

----------------------------------------------------------------------------
(* The API methods: BaseAsyncClient.request (clients/base.py 87-101),      *)
(* DeploymentAsyncClient (clients/deployments.py), WorkPoolAsyncClient     *)
(* (clients/work_pools.py) and deployments.schedule (deployments.py 74-91) *)
(*                                                                         *)
(* One operation runs at a time.  It is suspended in `await                *)
(* self.request(...)`; an action is the code between two such awaits.      *)

\* the most schedules a deployment has
MaxSchedules == 2

\* the classes self._client can be: PrefectCloudClient.__init__ constructs a
\* plain httpx.AsyncClient; BaseAsyncClient takes any AsyncClient, and
\* PrefectHttpxAsyncClient (raise_on_all_errors = True) is the one that
\* calls raise_for_status on every response
ClientClasses == {"httpx.AsyncClient", "PrefectHttpxAsyncClient"}

NoApiExc == [type |-> "", status |-> 0]

\* a response body after response.json(): kind tells what it validates as
Body(kind, schedules) == [kind |-> kind, schedules |-> schedules]

NoBody == Body("", <<>>)

ErrorBody == Body("detail", <<>>)

\* the value None that a method without a return value hands back
NoValue == Body("None", <<>>)

NoApiResult == [kind |-> "none", value |-> NoValue, exc |-> NoApiExc]

Returned(value) == [kind |-> "returned", value |-> value, exc |-> NoApiExc]

Raised(type, status) ==
    [kind |-> "raised", value |-> NoValue, exc |-> [type |-> type, status |-> status]]

\* str on the characters of a schedule argument
lower_char(c) ==
    CASE c = "N" -> "n"
      [] c = "O" -> "o"
      [] c = "E" -> "e"
      [] OTHER -> c

\* str.lower() on a string given as its characters
lower_chars(text) == [i \in 1..Len(text) |-> lower_char(text[i])]

\* the string "none"
none == <<"n", "o", "n", "e">>

\* the cron strings of the model: "0 12 * * *" and "* * * * *"
Crons ==
    {<<"0", " ", "1", "2", " ", "*", " ", "*", " ", "*">>,
     <<"*", " ", "*", " ", "*", " ", "*", " ", "*">>}

\* the schedule arguments: "none" in every letter case, the empty string
\* and the cron strings
ScheduleArgs ==
    {s \in [1..4 -> {"n", "N", "o", "O", "e", "E"}] : lower_chars(s) = none}
    \cup {<<>>} \cup Crons

\* the deployment arguments: an id, a name, and a name without a flow
DeploymentArgs ==
    {"aaaaaaaa-aaaa-aaaa-aaaa-aaaaaaaaaaaa", "my-flow/my-deployment", "my-deployment"}

\* UUID(deployment_) does not raise ValueError
IsUUID(text) == text = "aaaaaaaa-aaaa-aaaa-aaaa-aaaaaaaaaaaa"

\* len(name.split("/"))
NameParts(text) ==
    CASE text = "my-flow/my-deployment" -> 2
      [] OTHER -> 1

\* the schedules a deployment can have when it is read: ids without repetition
ScheduleLists ==
    {<<>>} \cup {<<a>> : a \in 1..MaxSchedules}
    \cup {<<a, b>> : <<a, b>> \in {p \in (1..MaxSchedules) \X (1..MaxSchedules) : p[1] # p[2]}}

\* the fields of a WorkPoolCreate
WorkPoolFields == {"name", "type", "base_job_template"}

\* the placeholders of a route, as str.format sees them
Placeholders(route) ==
    CASE route = "/deployments/{id}" -> {"id"}
      [] route = "/deployments/name/{flow_name}/{deployment_name}" ->
             {"flow_name", "deployment_name"}
      [] route = "/deployments/{id}/schedules" -> {"id"}
      [] route = "/deployments/{id}/schedules/{schedule_id}" -> {"id", "schedule_id"}
      [] route = "/work_pools/{name}" -> {"name"}
      [] OTHER -> {}

\* a request as the methods ask for it: path_params are the names given,
\* target the schedule a request is about (0: none), body what it carries
ApiRequest(method, route, path_params, target, body) ==
    [method |-> method, route |-> route, path_params |-> path_params,
     target |-> target, body |-> body]

\* path.format(**path_params) finds every placeholder (no KeyError)
CanFormat(request) ==
    request.path_params = {} \/ Placeholders(request.route) \subseteq request.path_params

\* what the server answers, and the exceptions of the connection
ApiAnswers(request) ==
    LET ok == CASE request.method = "GET" /\ request.route = "/work_pools/{name}" ->
                       {[status |-> 200, body |-> Body("work_pool", <<>>)]}
                [] request.method = "GET" ->
                       {[status |-> 200, body |-> Body("deployment", s)] :
                           s \in ScheduleLists}
                [] request.method = "POST" /\ request.route = "/work_pools/" ->
                       {[status |-> 201, body |-> Body("work_pool", <<>>)]}
                [] request.method = "POST" ->
                       {[status |-> 201, body |-> Body("schedules", <<>>)]}
                [] OTHER -> {[status |-> 204, body |-> NoBody]}
        errors == {[status |-> c, body |-> ErrorBody] : c \in {404, 409, 500}}
    IN  {[kind |-> "response", status |-> a.status, body |-> a.body, exc |-> NoApiExc] :
            a \in ok \cup errors}
        \cup {[kind |-> "exception", status |-> 0, body |-> NoBody,
               exc |-> [type |-> "ConnectError", status |-> 0]]}

\* response.raise_for_status(): the HTTPStatusError of a failed response
StatusError(answer) ==
    [kind |-> "exception", status |-> answer.status, body |-> answer.body,
     exc |-> [type |-> "HTTPStatusError", status |-> answer.status]]

\* what `await self._client.request(...)` ends with for an answer: only
\* PrefectHttpxAsyncClient.send calls raise_for_status
ClientOutcome(answer, class) ==
    IF /\ class = "PrefectHttpxAsyncClient"
       /\ answer.kind = "response"
       /\ ~IsSuccess(answer.status)
    THEN StatusError(answer)
    ELSE answer

\* except HTTPStatusError as e: 404 raises ObjectNotFound, anything else is
\* raised again; other exceptions are not caught
ExceptNotFound(o) ==
    IF o.exc.type = "HTTPStatusError" /\ o.exc.status = 404
    THEN Raised("ObjectNotFound", o.exc.status)
    ELSE Raised(o.exc.type, o.exc.status)

\* Model.model_validate(response.json()) for a body of the expected kind
Validate(kind, o) ==
    IF o.body.kind = kind THEN Returned(o.body) ELSE Raised("ValidationError", 0)

\* DeploymentAsyncClient.delete_deployment after its request ended with o
delete_deployment(o) ==
    IF o.kind = "exception" THEN ExceptNotFound(o) ELSE Returned(NoValue)

\* DeploymentAsyncClient.read_deployment after its request ended with o
read_deployment(o) ==
    IF o.kind = "exception" THEN ExceptNotFound(o) ELSE Validate("deployment", o)

\* DeploymentAsyncClient.read_deployment_by_name after its request ended
read_deployment_by_name(o) ==
    IF o.kind = "exception" THEN ExceptNotFound(o) ELSE Validate("deployment", o)

\* DeploymentAsyncClient.delete_deployment_schedule after its request ended
delete_deployment_schedule(o) ==
    IF o.kind = "exception" THEN ExceptNotFound(o) ELSE Returned(NoValue)

\* DeploymentAsyncClient.create_deployment_schedules after its request ended
create_deployment_schedules(o) ==
    IF o.kind = "exception"
    THEN Raised(o.exc.type, o.exc.status)
    ELSE Validate("schedules", o)

\* WorkPoolAsyncClient.read_work_pool after its request ended: it calls
\* response.raise_for_status() itself
read_work_pool(o) ==
    LET checked == IF o.kind = "response" /\ ~IsSuccess(o.status)
                   THEN StatusError(o) ELSE o
    IN  IF checked.kind = "exception"
        THEN ExceptNotFound(checked)
        ELSE Validate("work_pool", checked)

\* WorkPoolAsyncClient.update_work_pool after its request ended
update_work_pool(o) ==
    IF o.kind = "exception" THEN ExceptNotFound(o) ELSE Returned(NoValue)

\* the methods that the not-found mapping is stated for
NotFoundMethods ==
    {"delete_deployment", "read_deployment", "read_deployment_by_name",
     "delete_deployment_schedule"}

\* the request a method of NotFoundMethods makes
MethodRequest(op) ==
    CASE op = "delete_deployment" ->
             ApiRequest("DELETE", "/deployments/{id}", {"id"}, 0, {})
      [] op = "read_deployment" ->
             ApiRequest("GET", "/deployments/{id}", {"id"}, 0, {})
      [] op = "read_deployment_by_name" ->
             ApiRequest("GET", "/deployments/name/{flow_name}/{deployment_name}",
                        {"flow_name", "deployment_name"}, 0, {})
      [] OTHER ->
             ApiRequest("DELETE", "/deployments/{id}/schedules/{schedule_id}",
                        {"id", "schedule_id"}, 1, {})

\* what a method of NotFoundMethods does once its request ended with o
MethodResult(op, o) ==
    CASE op = "delete_deployment" -> delete_deployment(o)
      [] op = "read_deployment" -> read_deployment(o)
      [] op = "read_deployment_by_name" -> read_deployment_by_name(o)
      [] OTHER -> delete_deployment_schedule(o)

\* an operation: op is its name and pc the request it waits for; schedule,
\* deployment_ and overwrite are its arguments; schedules is
\* deployment.schedules as read, i the number of them handled by the loop;
\* status is the status of the first answer (0: none, or an exception)
NoCall ==
    [op |-> "", pc |-> "idle", deployment_ |-> "", schedule |-> <<>>,
     overwrite |-> FALSE, schedules |-> <<>>, i |-> 0, status |-> 0,
     answers |-> 0]

\* the effect of a step: the operation afterwards, the requests it issued,
\* and what it handed its caller when it ended
Effect(c, issued, res) == [call |-> c, issued |-> issued, result |-> res]

\* the operation ends
End(c, res) == Effect([c EXCEPT !.pc = "done"], <<>>, res)

\* await self.request(...): either path.format raises KeyError, or the
\* request goes out and the operation waits at pc
Issue(c, pc, request) ==
    IF CanFormat(request)
    THEN Effect([c EXCEPT !.pc = pc], <<request>>, NoApiResult)
    ELSE End(c, Raised("KeyError", 0))

\* a slip: "none" is recognised in lower case only
WantsCreateCaseSensitive(schedule) == schedule # <<>> /\ schedule # none

\* if schedule and schedule.lower() != "none"
WantsCreate(schedule) == schedule # <<>> /\ lower_chars(schedule) # none

\* deployments.schedule from the head of its for loop, i schedules done
ScheduleLoop(c) ==
    IF c.i < Len(c.schedules)
    THEN Issue([c EXCEPT !.i = @ + 1], "delete",
               ApiRequest("DELETE", "/deployments/{id}/schedules/{schedule_id}",
                          {"id", "schedule_id"}, c.schedules[c.i + 1], {}))
    ELSE IF WantsCreate(c.schedule)
    THEN Issue(c, "create",
               ApiRequest("POST", "/deployments/{id}/schedules", {"id"}, 0,
                          {c.schedule}))
    ELSE End(c, Returned(NoValue))

\* deployments.schedule once the request it waits for ended with o
ScheduleStep(c, o) ==
    CASE c.pc = "read" ->
             LET r == IF IsUUID(c.deployment_)
                      THEN read_deployment(o) ELSE read_deployment_by_name(o)
             IN  IF r.kind = "raised" THEN End(c, r)
                 ELSE ScheduleLoop([c EXCEPT !.schedules = r.value.schedules])
      [] c.pc = "delete" ->
             LET r == delete_deployment_schedule(o)
             IN  IF r.kind = "raised" THEN End(c, r) ELSE ScheduleLoop(c)
      [] OTHER ->
             LET r == create_deployment_schedules(o)
             IN  IF r.kind = "raised" THEN End(c, r) ELSE End(c, Returned(NoValue))

\* WorkPoolAsyncClient.create_work_pool once the request it waits for ended
CreateWorkPoolStep(c, o) ==
    CASE c.pc = "post" ->
             IF o.kind = "exception"
             THEN IF o.exc.type = "HTTPStatusError"
                  THEN IF o.exc.status = 409
                       THEN IF c.overwrite
                            THEN \* read_work_pool(work_pool_name=work_pool.name)
                                 Issue(c, "read_work_pool",
                                       ApiRequest("GET", "/work_pools/{name}",
                                                  {"work_pool_name"}, 0, {}))
                            ELSE End(c, Raised("ObjectAlreadyExists", o.exc.status))
                       ELSE End(c, Raised(o.exc.type, o.exc.status))
                  ELSE End(c, Raised(o.exc.type, o.exc.status))
             ELSE End(c, Validate("work_pool", o))
      [] c.pc = "read_work_pool" ->
             LET r == read_work_pool(o)
             IN  IF r.kind = "raised" THEN End(c, r)
                 ELSE Issue(c, "update_work_pool",
                            ApiRequest("PATCH", "/work_pools/{name}", {"name"}, 0,
                                       WorkPoolFields \ {"name", "type"}))
      [] c.pc = "update_work_pool" ->
             LET r == update_work_pool(o)
             IN  IF r.kind = "raised" THEN End(c, r)
                 ELSE Issue(c, "read_again",
                            ApiRequest("GET", "/work_pools/{name}", {"name"}, 0, {}))
      [] OTHER ->
             IF o.kind = "exception"
             THEN End(c, Raised(o.exc.type, o.exc.status))
             ELSE End(c, Validate("work_pool", o))

\* the code of the running operation from the end of its request to its
\* next request or its end
ApiStep(c, o) ==
    CASE c.op = "schedule" -> ScheduleStep(c, o)
      [] c.op = "create_work_pool" -> CreateWorkPoolStep(c, o)
      [] OTHER -> End(c, MethodResult(c.op, o))

\* BaseAsyncClient.__init__(client) with a client of one of the classes,
\* and no operation yet
InitApiWith(classes) ==
    /\ _client \in classes
    /\ api_call = NoCall
    /\ requests = <<>>
    /\ api_result = NoApiResult

\* PrefectCloudClient.__init__: self._client = httpx.AsyncClient(...)
InitApi == InitApiWith({"httpx.AsyncClient"})

\* an operation begins with the effect e of its code up to the first await
Begin(e) ==
    /\ api_call.pc \in {"idle", "done"}
    /\ api_call' = e.call
    /\ requests' = e.issued
    /\ api_result' = e.result
    /\ UNCHANGED _client
    /\ UNCHANGED <<transport_vars, client_vars>>

\* deployments.schedule(deployment_, schedule) up to its first request:
\* _get_deployment reads the deployment by id or by name
CallSchedule(deployment_, schedule) ==
    LET c == [NoCall EXCEPT !.op = "schedule", !.deployment_ = deployment_,
                            !.schedule = schedule]
    IN  Begin(IF IsUUID(deployment_)
              THEN Issue(c, "read", MethodRequest("read_deployment"))
              ELSE IF NameParts(deployment_) # 2
              THEN End(c, Raised("ValueError", 0))
              ELSE Issue(c, "read", MethodRequest("read_deployment_by_name")))

\* one of the methods with the not-found mapping is called
CallMethod(op) ==
    Begin(Issue([NoCall EXCEPT !.op = op], "request", MethodRequest(op)))

\* create_work_pool(work_pool, overwrite) up to its first request
CallCreateWorkPool(overwrite) ==
    Begin(Issue([NoCall EXCEPT !.op = "create_work_pool", !.overwrite = overwrite],
                "post",
                ApiRequest("POST", "/work_pools/", {}, 0, WorkPoolFields)))

\* the request the operation waits for ends, and the operation runs to its
\* next request or to its end
ApiAnswered ==
    /\ api_call.pc \notin {"idle", "done"}
    /\ \E a \in ApiAnswers(requests[Len(requests)]) :
          LET o == ClientOutcome(a, _client)
              c == [api_call EXCEPT
                       !.answers = @ + 1,
                       !.status = IF api_call.answers = 0 THEN a.status ELSE @]
              e == ApiStep(c, o)
          IN  /\ api_call' = e.call
              /\ requests' = requests \o e.issued
              /\ api_result' = e.result
    /\ UNCHANGED _client
    /\ UNCHANGED <<transport_vars, client_vars>>

----------------------------------------------------------------------------
(* Actions                                                                 *)

\* PrefectHttpxAsyncClient.__init__, and one task that calls send
InitTransport ==
    /\ tasks = {1}
    /\ enable_csrf_support \in BOOLEAN
    /\ raise_on_all_errors \in BOOLEAN
    /\ csrf_token = NoToken
    /\ csrf_token_expiration = NoExpiration
    /\ stack = [t \in AllTasks |-> <<>>]
    /\ result = [t \in AllTasks |-> NoResult]
    /\ fetch_404 = FALSE

Init ==
    /\ InitTransport
    /\ InitClient
    /\ InitApi

\* task t calls client.send(request) with a request of the given method
StartCall(t, method) ==
    /\ t \in tasks
    /\ stack[t] = <<>>
    /\ LET frames == BeginSend("request", method, enable_csrf_support, csrf_token,
                               csrf_token_expiration, fetch_404)
       IN  /\ Len(frames) <= MaxDepth
           /\ stack' = [stack EXCEPT ![t] = frames]
    /\ result' = [result EXCEPT ![t] = NoResult]
    /\ UNCHANGED <<tasks, enable_csrf_support, csrf_token, csrf_token_expiration,
                   raise_on_all_errors, fetch_404>>
    /\ UNCHANGED client_vars
    /\ UNCHANGED api_vars

\* the underlying send of task t's innermost call ends with outcome o; the
\* calls it starts are followed while the nesting is no deeper than depth
ReceiveWithin(t, o, depth) ==
    /\ t \in tasks
    /\ stack[t] # <<>>
    /\ Top(stack[t]).pc = "send"
    /\ \E c \in HandleOutcome(Top(stack[t]), o, enable_csrf_support, csrf_token,
                              csrf_token_expiration, fetch_404) :
          /\ Len(stack[t]) - 1 + Len(c.top) <= depth
          /\ stack' = [stack EXCEPT ![t] = Below(stack[t]) \o c.top]
          /\ csrf_token' = c.csrf_token
          /\ fetch_404' = (fetch_404 \/ (/\ Top(stack[t]).kind = "token"
                                         /\ o.kind = "response"
                                         /\ o.response.status = 404))
    /\ UNCHANGED <<tasks, enable_csrf_support, csrf_token_expiration,
                   raise_on_all_errors, result>>
    /\ UNCHANGED client_vars
    /\ UNCHANGED api_vars

\* the underlying send of task t's innermost call ends with outcome o
ReceiveOutcome(t, o) == ReceiveWithin(t, o, MaxDepth)

\* the underlying send of task t's innermost call ends
Receive(t) ==
    /\ stack[t] # <<>>
    /\ \E o \in Outcomes(Top(stack[t]).kind) : ReceiveOutcome(t, o)

ShiftFrame(f, d) ==
    [f EXCEPT !.headers.expiration = ShiftTime(@, d),
              !.response.expiration = ShiftTime(@, d)]

ShiftStack(s, d) == [i \in 1..Len(s) |-> ShiftFrame(s[i], d)]

\* anyio.sleep(retry_seconds) of task t's innermost call ends: retry_seconds
\* have passed, and the loop head runs
Wake(t) ==
    /\ t \in tasks
    /\ stack[t] # <<>>
    /\ Top(stack[t]).pc = "sleep"
    /\ LET d == Top(stack[t]).retry_seconds
           woken == [ShiftFrame(Top(stack[t]), d) EXCEPT !.sleeps = @ + 1, !.jitter = ""]
       IN  /\ stack' = [u \in AllTasks |->
                          IF u = t
                          THEN ShiftStack(Below(stack[t]), d)
                               \o <<NextIteration(woken, enable_csrf_support)>>
                          ELSE ShiftStack(stack[u], d)]
           /\ csrf_token_expiration' = ShiftTime(csrf_token_expiration, d)
    /\ UNCHANGED <<tasks, enable_csrf_support, csrf_token, raise_on_all_errors,
                   result, fetch_404>>
    /\ UNCHANGED client_vars
    /\ UNCHANGED api_vars

\* the innermost call of task t has ended: send() delivers to its caller,
\* which is either the task itself or the _add_csrf_headers of the call below
Return(t) ==
    /\ t \in tasks
    /\ stack[t] # <<>>
    /\ Top(stack[t]).pc = "done"
    /\ LET c == Top(stack[t])
           d == Delivered(c, raise_on_all_errors)
           signal == /\ c.outcome = "returned"
                     /\ \/ c.response.status = 404
                        \/ /\ c.response.status = 422
                           /\ c.response.text = CsrfDisabledBody
       IN  IF Len(stack[t]) = 1
           THEN /\ stack' = [stack EXCEPT ![t] = <<>>]
                /\ result' = [result EXCEPT ![t] = d]
                /\ UNCHANGED <<enable_csrf_support, csrf_token, csrf_token_expiration>>
           ELSE \E k \in ContinueAfterFetch(Top(Below(stack[t])), d, signal,
                                            enable_csrf_support, csrf_token,
                                            csrf_token_expiration) :
                   /\ stack' = [stack EXCEPT ![t] = Below(Below(stack[t])) \o k.top]
                   /\ enable_csrf_support' = k.enable_csrf_support
                   /\ csrf_token' = k.csrf_token
                   /\ csrf_token_expiration' = k.csrf_token_expiration
                   /\ UNCHANGED result
    /\ UNCHANGED <<tasks, raise_on_all_errors, fetch_404>>
    /\ UNCHANGED client_vars
    /\ UNCHANGED api_vars

\* no call is running, and the client stays idle for longer than any token
\* lives
Idle ==
    /\ \A t \in AllTasks : stack[t] = <<>>
    /\ csrf_token_expiration # NoExpiration
    /\ csrf_token_expiration >= now
    /\ csrf_token_expiration' = ShiftTime(csrf_token_expiration, MaxTTL + 1)
    /\ UNCHANGED <<tasks, enable_csrf_support, csrf_token, raise_on_all_errors,
                   stack, result, fetch_404>>
    /\ UNCHANGED client_vars
    /\ UNCHANGED api_vars

Next ==
    \/ \E t \in AllTasks, method \in Methods : StartCall(t, method)
    \/ \E t \in AllTasks : Receive(t)
    \/ \E t \in AllTasks : Wake(t)
    \/ \E t \in AllTasks : Return(t)
    \/ Idle

Spec == Init /\ [][Next]_vars

\* a client used in nested `async with` blocks, and failed responses whose
\* errors are enriched
NextClient ==
    \/ AEnter
    \/ AExit
    \/ \E error \in HTTPStatusErrors : RaiseForStatus(error)

SpecClient == Init /\ [][NextClient]_vars

\* operations of the API client, one after the other
NextApi ==
    \/ \E deployment_ \in DeploymentArgs, schedule \in ScheduleArgs :
          CallSchedule(deployment_, schedule)
    \/ \E op \in NotFoundMethods : CallMethod(op)
    \/ \E overwrite \in BOOLEAN : CallCreateWorkPool(overwrite)
    \/ ApiAnswered

\* the methods are run on a client of either class
InitAnyClient ==
    /\ InitTransport
    /\ InitClient
    /\ InitApiWith(ClientClasses)

SpecApi == InitAnyClient /\ [][NextApi]_vars

----------------------------------------------------------------------------
(* Two tasks sharing one client                                            *)

\* the states explored with two tasks: a call makes at most MaxConcurrentTries
\* attempts, no call has ended with an exception, and the server answers
\* 200, 403 (CSRF rejection) or 429 with Retry-After
ConcurrentBound ==
    \A t \in AllTasks : \A i \in 1..Len(stack[t]) :
        /\ stack[t][i].try_count <= MaxConcurrentTries
        /\ stack[t][i].outcome # "raised"
        /\ stack[t][i].exc_info = NoExc
        /\ stack[t][i].method = (IF stack[t][i].kind = "token" THEN "GET" ELSE "POST")
        /\ \/ IsNone(stack[t][i].response)
           \/ stack[t][i].response.status = 429
           \/ IsCsrfRejection(stack[t][i].response)
           \/ /\ stack[t][i].response.status = 200
              /\ stack[t][i].kind = "token" => IsTokenBody(stack[t][i].response)

\* two tasks call send on a client constructed with CSRF support
InitConcurrent ==
    /\ tasks = AllTasks
    /\ enable_csrf_support = TRUE
    /\ raise_on_all_errors = TRUE
    /\ csrf_token = NoToken
    /\ csrf_token_expiration = NoExpiration
    /\ stack = [t \in AllTasks |-> <<>>]
    /\ result = [t \in AllTasks |-> NoResult]
    /\ fetch_404 = FALSE
    /\ InitClient
    /\ InitApi

\* every task makes one call
NextConcurrent ==
    \/ \E t \in AllTasks :
          StartCall(t, "POST") /\ result[t] = NoResult /\ ConcurrentBound'
    \/ \E t \in AllTasks : Receive(t) /\ ConcurrentBound'
    \/ \E t \in AllTasks : Wake(t) /\ ConcurrentBound'
    \/ \E t \in AllTasks : Return(t) /\ ConcurrentBound'
    \/ Idle

SpecConcurrent == InitConcurrent /\ [][NextConcurrent]_vars

----------------------------------------------------------------------------
(* Status classification: the status codes a server can answer with       *)

\* the statuses of the classification runs: success, the retryable four,
\* and client and server errors that are not retryable
StatusCodes == {200, 400, 401, 403, 404, 408, 429, 500, 502, 503, 504}

\* every status with a plain body, the 403 also with the CSRF marker, and
\* for a token fetch the token bodies
StatusOutcomes(kind) ==
    {[kind |-> "response", response |-> r, exc |-> NoExc] :
        r \in {Resp(c, OtherBody, NoHeader) : c \in StatusCodes}
              \cup {Resp(HTTP_403_FORBIDDEN, InvalidCsrfBody, NoHeader)}
              \cup (IF kind = "token" THEN TokenResponses ELSE {})}

InitStatus == Init

\* the underlying send of task t's innermost call is answered with any of
\* the statuses
ReceiveStatus(t) ==
    /\ stack[t] # <<>>
    /\ \E o \in StatusOutcomes(Top(stack[t]).kind) : ReceiveOutcome(t, o)

NextStatus ==
    \/ \E t \in AllTasks, method \in Methods : StartCall(t, method)
    \/ \E t \in AllTasks : ReceiveStatus(t)
    \/ \E t \in AllTasks : Wake(t)
    \/ \E t \in AllTasks : Return(t)
    \/ Idle

SpecStatus == InitStatus /\ [][NextStatus]_vars

----------------------------------------------------------------------------
(* Backoff: the Retry-After values a server can send                       *)

\* the largest Retry-After value, in seconds
MaxRetryAfter == 5

\* Retry-After: 0, a short one and the longest one
RetryAfterValues == {0, 1, MaxRetryAfter}

\* success, a retryable status without and with Retry-After, a retryable
\* exception, and for a token fetch the token bodies
BackoffOutcomes(kind) ==
    {[kind |-> "response", response |-> r, exc |-> NoExc] :
        r \in {Resp(200, OtherBody, NoHeader), Resp(503, OtherBody, NoHeader)}
              \cup {Resp(429, OtherBody, ra) : ra \in RetryAfterValues}
              \cup (IF kind = "token" THEN TokenResponses ELSE {})}
    \cup
    {[kind |-> "exception", response |-> NoResponse,
      exc |-> [type |-> "ReadTimeout", status |-> 0, text |-> "", id |-> 0]]}

InitBackoff == Init

ReceiveBackoff(t) ==
    /\ stack[t] # <<>>
    /\ \E o \in BackoffOutcomes(Top(stack[t]).kind) : ReceiveOutcome(t, o)

NextBackoff ==
    \/ \E t \in AllTasks, method \in Methods : StartCall(t, method)
    \/ \E t \in AllTasks : ReceiveBackoff(t)
    \/ \E t \in AllTasks : Wake(t)
    \/ \E t \in AllTasks : Return(t)
    \/ Idle

SpecBackoff == InitBackoff /\ [][NextBackoff]_vars

----------------------------------------------------------------------------
(* Cancellation: the caller cancels the task while a call is suspended     *)

\* asyncio.CancelledError, raised inside the task at the await it is
\* suspended in
Cancelled == [type |-> "CancelledError", status |-> 0, text |-> "", id |-> 0]

\* a call of task t has ended with the cancellation
IsCancelled(t) ==
    \/ \E i \in 1..Len(stack[t]) : stack[t][i].exc.type = "CancelledError"
    \/ result[t].exc.type = "CancelledError"

InitCancel == Init

\* task t is cancelled while its innermost call awaits the underlying send:
\* `await send(request)` (http.py 163) raises CancelledError
CancelSend(t) ==
    /\ ~IsCancelled(t)
    /\ ReceiveOutcome(t, [kind |-> "exception", response |-> NoResponse,
                          exc |-> Cancelled])

\* task t is cancelled while its innermost call sleeps: `await
\* anyio.sleep(retry_seconds)` (http.py 217) raises CancelledError, which
\* nothing in _send_with_retry catches
CancelSleep(t) ==
    /\ t \in tasks
    /\ ~IsCancelled(t)
    /\ stack[t] # <<>>
    /\ Top(stack[t]).pc = "sleep"
    /\ stack' = [stack EXCEPT ![t] =
                    Below(stack[t])
                    \o <<Done(Top(stack[t]),
                              "raised",
                              [Cancelled EXCEPT !.id = Top(stack[t]).try_count],
                              "sleep")>>]
    /\ UNCHANGED <<tasks, enable_csrf_support, csrf_token, csrf_token_expiration,
                   raise_on_all_errors, result, fetch_404>>
    /\ UNCHANGED client_vars
    /\ UNCHANGED api_vars

NextCancel ==
    \/ \E t \in AllTasks, method \in Methods : StartCall(t, method)
    \/ \E t \in AllTasks : ReceiveBackoff(t)
    \/ \E t \in AllTasks : Wake(t)
    \/ \E t \in AllTasks : Return(t)
    \/ Idle
    \/ \E t \in AllTasks : CancelSend(t)
    \/ \E t \in AllTasks : CancelSleep(t)

SpecCancel == InitCancel /\ [][NextCancel]_vars

----------------------------------------------------------------------------
(* Nesting: a token endpoint that rejects the token fetch itself           *)

\* the deepest nesting of send calls followed in the runs on nesting
MaxRecursion == 4

\* the attempts one call makes in the runs on nesting
MaxRecursionTries == 2

\* success and the CSRF rejection, and for a token fetch the token bodies
RecursionOutcomes(kind) ==
    {[kind |-> "response", response |-> r, exc |-> NoExc] :
        r \in {Resp(200, OtherBody, NoHeader), Resp(403, InvalidCsrfBody, NoHeader)}
              \cup (IF kind = "token" THEN TokenResponses ELSE {})}

\* every call has made at most MaxRecursionTries attempts
RecursionBound ==
    \A t \in AllTasks : \A i \in 1..Len(stack[t]) :
        stack[t][i].try_count <= MaxRecursionTries

InitRecursion == Init

ReceiveRecursion(t) ==
    /\ stack[t] # <<>>
    /\ \E o \in RecursionOutcomes(Top(stack[t]).kind) :
          ReceiveWithin(t, o, MaxRecursion)

NextRecursion ==
    \/ \E t \in AllTasks, method \in Methods : StartCall(t, method) /\ RecursionBound'
    \/ \E t \in AllTasks : ReceiveRecursion(t) /\ RecursionBound'
    \/ \E t \in AllTasks : Wake(t) /\ RecursionBound'
    \/ \E t \in AllTasks : Return(t) /\ RecursionBound'
    \/ Idle

SpecRecursion == InitRecursion /\ [][NextRecursion]_vars

----------------------------------------------------------------------------
(* Properties                                                              *)

AllFrames == UNION {{stack[t][i] : i \in 1..Len(stack[t])} : t \in AllTasks}

\* the retryable status codes of the specification (4.1), with no extra codes
RetryableStatus == {408, 429, 502, 503}

\* the retryable exception kinds of the specification (4.1)
RetryableExceptions ==
    {"ReadTimeout", "PoolTimeout", "ConnectTimeout", "ReadError",
     "WriteError", "RemoteProtocolError", "LocalProtocolError"}

MaxAttempts == PREFECT_CLIENT_MAX_RETRIES + 1

\* a response that is neither retryable nor a CSRF rejection
IsTerminal(response) ==
    /\ ~IsNone(response)
    /\ response.status \notin RetryableStatus
    /\ ~(response.status = 403 /\ response.text = InvalidCsrfBody)

\* C1 (retry ceiling): no call of _send_with_retry sends more than N+1 times,
\* and a call whose every attempt was answered with a retryable status code
\* has sent exactly N+1 times when it ends.
C1_RetryCeiling ==
    \A f \in AllFrames :
        /\ f.sends <= MaxAttempts
        /\ (f.pc = "done" /\ f.only_retry /\ f.try_count >= 1)
               => f.sends = MaxAttempts

C1_Witness ==
    \E f \in AllFrames :
        f.pc = "done" /\ f.only_retry /\ f.sends = MaxAttempts

\* C2 (local recovery and passthrough): a response that is neither retryable
\* nor a CSRF rejection ends the call on the attempt k that received it: the
\* call returns that very response after exactly k sends and k-1 sleeps.
C2_LocalRecovery ==
    \A f \in AllFrames :
        IsTerminal(f.response) =>
            /\ f.pc = "done"
            /\ f.outcome = "returned"
            /\ f.response.id = f.sends
            /\ f.try_count = f.sends
            /\ f.sleeps = f.sends - 1

\* two failed attempts, then a 200 on the third
C2_Witness ==
    \E f \in AllFrames :
        /\ f.pc = "done" /\ f.outcome = "returned"
        /\ f.response.status = 200 /\ f.sends = 3 /\ f.sleeps = 2

\* the plain 404 on the first attempt
C2_Witness404 ==
    \E f \in AllFrames :
        /\ f.pc = "done" /\ f.outcome = "returned"
        /\ f.response.status = 404 /\ f.sends = 1 /\ f.sleeps = 0

\* C3 (exhaustion by responses): a call whose N+1 attempts were all answered
\* with retryable responses returns, and returns the response of attempt N+1;
\* the assertion after the loop never fails.
C3_Exhaustion ==
    \A f \in AllFrames :
        /\ f.raised_in # "assert"
        /\ (f.pc = "done" /\ f.only_retry /\ f.try_count >= 1) =>
               /\ f.outcome = "returned"
               /\ f.response.id = MaxAttempts
               /\ f.response.status \in RetryableStatus

C3_Witness ==
    \E f \in AllFrames :
        /\ f.pc = "done" /\ f.only_retry /\ f.outcome = "returned"
        /\ f.response.id = MaxAttempts /\ f.sleeps = MaxAttempts

\* C4 (exception propagation): an exception of the underlying send leaves
\* the call, unchanged and on the attempt that raised it, exactly when it is
\* not retryable or was raised by attempt N+1; a retryable exception of an
\* attempt 1..N is kept in exc_info only, and the call sleeps towards its
\* next attempt.
C4_ExceptionPropagation ==
    \A f \in AllFrames :
        /\ f.raised_in = "send" =>
               /\ f.pc = "done" /\ f.outcome = "raised"
               /\ f.exc.type \in ExceptionTypes
               /\ f.exc.id = f.try_count /\ f.sends = f.try_count
               /\ (f.exc.type \notin RetryableExceptions \/ f.try_count = MaxAttempts)
        /\ f.exc_info # NoExc =>
               /\ f.exc_info.type \in RetryableExceptions
               /\ f.exc_info.id = f.try_count
               /\ f.try_count <= PREFECT_CLIENT_MAX_RETRIES
               /\ f.pc = "sleep"
               /\ f.outcome = ""

\* the retryable exception of attempt N+1 propagates
C4_Witness ==
    \E f \in AllFrames :
        /\ f.raised_in = "send" /\ f.exc.type = "ReadTimeout"
        /\ f.try_count = MaxAttempts /\ f.sleeps = PREFECT_CLIENT_MAX_RETRIES

\* C5 (no wasted sleep): whenever a call sleeps, another attempt of the same
\* request follows, that is, the loop condition still holds.
C5_NoWastedSleep ==
    \A f \in AllFrames :
        f.pc = "sleep" => f.try_count <= PREFECT_CLIENT_MAX_RETRIES

\* C6 (CSRF token expiry invariant): no attempt of a mutating request of a
\* CSRF enabled client was sent with a token that had expired when it was sent.
C6_TokenNeverSentExpired ==
    \A f \in AllFrames : ~f.sent_expired

\* C7 (CSRF auto-refresh): a mutating request that finds the cached token
\* expired sends nothing while the token fetch runs; when its first attempt is
\* in flight exactly one fetch has been made, and if CSRF support is still
\* enabled the attempt carries the token the server issued in that fetch,
\* unexpired.
C7_AutoRefresh ==
    \A f \in AllFrames :
        f.stale_at_start =>
            /\ f.pc = "csrf_pre" => f.sends = 0
            /\ f.pc # "csrf_pre" => f.fetches >= 1
            /\ (f.pc = "send" /\ f.sends = 1) =>
                   /\ f.fetches = 1
                   /\ enable_csrf_support =>
                          /\ f.headers.token # NoToken
                          /\ f.headers.token = csrf_token
                          /\ f.headers.expiration = csrf_token_expiration
                          /\ f.headers.expiration >= now

C7_Witness ==
    \E f \in AllFrames :
        /\ f.stale_at_start /\ f.pc = "send" /\ f.sends = 1
        /\ enable_csrf_support /\ f.fetches = 1 /\ f.headers.token = csrf_token

\* the attempt before the one in flight was answered with a CSRF rejection
PreviousRejected(f) ==
    /\ f.pc = "send"
    /\ IsCsrfRejection(f.response)
    /\ f.response.id = f.try_count - 1

C9_PermanentDisable ==
    /\ (fetch_404 /\ \A t \in AllTasks : stack[t] = <<>>) => ~enable_csrf_support
    /\ \A f \in AllFrames :
           (f.kind = "request" /\ f.after_404) =>
               /\ ~enable_csrf_support
               /\ f.fetches = 0

\* C10 (disable detection is not an error): a call whose token fetch was
\* answered 404, or 422 with the disabled marker, goes on with CSRF support
\* off: the answer does not end the call with an exception, and the request
\* is sent.
C10_DisableDetection ==
    \A f \in AllFrames :
        f.fetch_signal =>
            /\ ~enable_csrf_support
            /\ f.raised_in # "csrf"
            /\ f.sends >= 1

----------------------------------------------------------------------------
(* Properties of single steps                                              *)

\* task t sends an attempt in this step: its innermost call is suspended in
\* the underlying send afterwards, and was not suspended in that attempt
\* before
SentNow(t) ==
    /\ stack'[t] # <<>>
    /\ Top(stack'[t]).pc = "send"
    /\ \/ Len(stack'[t]) # Len(stack[t])
       \/ Top(stack'[t]).sends # Top(stack[t]).sends

\* task t is the only task with a running call
OnlyRunning(t) ==
    /\ stack[t] # <<>>
    /\ \A u \in AllTasks \ {t} : stack[u] = <<>>

\* C11 (Disabled attaches nothing): an attempt that is sent while CSRF
\* support is off, first attempt or retry, carries no Prefect-Csrf-Token and
\* no Prefect-Csrf-Client header.
C11_DisabledAttachesNothing ==
    [][\A t \in AllTasks :
          (SentNow(t) /\ ~enable_csrf_support')
              => Top(stack'[t]).headers = NoHeaders]_vars

\* C12 (read-only requests are CSRF-free): a call of send with a GET, HEAD
\* or OPTIONS request has made no token fetch and its request carries no
\* CSRF headers, and while it is the only running call the cached token does
\* not change.
C12_ReadOnlyCsrfFree ==
    /\ [](\A f \in AllFrames :
             (f.kind = "request" /\ ~is_change_request(f.method))
                 => (f.fetches = 0 /\ f.headers = NoHeaders))
    /\ [][\A t \in AllTasks :
             (/\ OnlyRunning(t)
              /\ stack[t][1].kind = "request"
              /\ ~is_change_request(stack[t][1].method))
                 => csrf_token' = csrf_token]_vars

\* the CSRF state Valid: support is on and the cached token has not expired
ValidTokenCached ==
    /\ enable_csrf_support
    /\ csrf_token # NoToken
    /\ ~(csrf_token_expiration # NoExpiration /\ now > csrf_token_expiration)

\* C13 (header injection when Valid): an attempt of a mutating request that
\* is sent while a valid token is cached carries that token in
\* Prefect-Csrf-Token, together with the Prefect-Csrf-Client header.
C13_HeaderInjection ==
    [][\A t \in AllTasks :
          (/\ SentNow(t)
           /\ is_change_request(Top(stack'[t]).method)
           /\ ValidTokenCached')
              => /\ Top(stack'[t]).headers.token = csrf_token'
                 /\ Top(stack'[t]).headers.client]_vars

\* the responses the specification (4.1) has retried: the retryable status
\* codes, the configured extra codes, and the CSRF rejection
SpecRetries(response) ==
    \/ response.status \in RetryableStatus \cup PREFECT_CLIENT_RETRY_EXTRA_CODES
    \/ (response.status = 403 /\ response.text = InvalidCsrfBody)

\* C14 (status classification): a response that is not to be retried ends
\* the call, which returns it on the attempt that received it; a response
\* that is to be retried is returned only by attempt N+1, and a call that
\* sleeps or refetches the token after a response does so after a response
\* that is to be retried.
C14_StatusClassification ==
    \A f \in AllFrames :
        /\ (~IsNone(f.response) /\ ~SpecRetries(f.response)) =>
               /\ f.pc = "done" /\ f.outcome = "returned"
               /\ f.response.id = f.try_count
               /\ f.sends = f.try_count
        /\ (f.pc = "done" /\ f.outcome = "returned" /\ SpecRetries(f.response)) =>
               f.try_count = MaxAttempts
        /\ (f.pc \in {"sleep", "csrf_retry"} /\ f.exc_info = NoExc) =>
               /\ SpecRetries(f.response)
               /\ f.response.id = f.try_count

\* a 408 is retried and the 504 that follows is returned by attempt 2
C14_Witness ==
    \E f \in AllFrames :
        /\ f.pc = "done" /\ f.outcome = "returned"
        /\ f.response.status = 504 /\ f.sends = 2 /\ f.sleeps = 1

\* the exception types of httpx for a timeout on the four axes
TimeoutExceptions == {"ConnectTimeout", "ReadTimeout", "WriteTimeout", "PoolTimeout"}

\* C15 (timeout classification): a timeout raised by an attempt 1..N does
\* not end the call; the call sleeps towards its next attempt.
C15_TimeoutClassification ==
    \A f \in AllFrames :
        (/\ f.raised_in = "send"
         /\ f.exc.type \in TimeoutExceptions)
            => f.exc.id = MaxAttempts

\* the call sleeps after an attempt whose response carries Retry-After
SleepsOnRetryAfter(f) ==
    /\ f.pc = "sleep"
    /\ f.exc_info = NoExc
    /\ f.response.id = f.try_count
    /\ f.response.retry_after # NoHeader

\* C16 (Retry-After bound): after a response with Retry-After: T the call
\* sleeps at least T and at most T * (1 + jitter_factor) seconds, where
\* jitter_factor is 1 / TicksPerSecond and retry_seconds counts ticks.
C16_RetryAfterBound ==
    \A f \in AllFrames :
        SleepsOnRetryAfter(f) =>
            /\ f.retry_seconds >= f.response.retry_after * TicksPerSecond
            /\ f.retry_seconds * TicksPerSecond
                   <= f.response.retry_after * TicksPerSecond * (TicksPerSecond + 1)

\* Retry-After: 5 and a sleep of 6 seconds
C16_Witness ==
    \E f \in AllFrames :
        /\ SleepsOnRetryAfter(f)
        /\ f.response.retry_after = 5
        /\ f.retry_seconds = 6 * TicksPerSecond

\* C17 (exponential growth): a call that sleeps after attempt k without a
\* Retry-After value from that attempt sleeps between 2^k * (1 - jitter_factor)
\* and 2^k * (1 + jitter_factor) seconds, and never a negative time.
C17_ExponentialGrowth ==
    \A f \in AllFrames :
        (f.pc = "sleep" /\ ~SleepsOnRetryAfter(f)) =>
            /\ f.try_count >= 1
            /\ f.retry_seconds * TicksPerSecond
                   >= (2 ^ f.try_count) * TicksPerSecond * (TicksPerSecond - 1)
            /\ f.retry_seconds * TicksPerSecond
                   <= (2 ^ f.try_count) * TicksPerSecond * (TicksPerSecond + 1)
            /\ f.retry_seconds >= 0

\* the sleep after attempt 3 at the lower end of 8 seconds -+ 20%, and the
\* sleep after attempt 4 at the upper end of 16 seconds -+ 20%
C17_Witness ==
    \E f \in AllFrames :
        /\ f.pc = "sleep" /\ ~SleepsOnRetryAfter(f)
        /\ \/ f.try_count = 3 /\ 10 * f.retry_seconds = 64 * TicksPerSecond
           \/ f.try_count = 4 /\ 10 * f.retry_seconds = 192 * TicksPerSecond

\* the outermost call of task t, whose _send_with_retry returned a response,
\* hands over to the task in this step
SendEnds(t) ==
    /\ Len(stack[t]) = 1
    /\ stack[t][1].pc = "done"
    /\ stack[t][1].outcome = "returned"
    /\ stack'[t] = <<>>

C18_WitnessRaised ==
    \E t \in AllTasks :
        /\ raise_on_all_errors
        /\ result[t].kind = "raised"
        /\ result[t].exc.type = "PrefectHTTPStatusError"
        /\ result[t].exc.status = 503
        /\ result[t].exc.id = MaxAttempts

\* C19 (error enrichment): the message of the enriched error is the first
\* line of the original message, then the line "Response: <parsed body>" if
\* the body parses as JSON, then the remaining lines in their order; it is the
\* original message if the body does not parse; request and response are
\* those of the original error.
C19_ErrorEnrichment ==
    prefect_error # NoError =>
        LET lines == split(httpx_error.message)
            parsed == json(httpx_error.response)
        IN  /\ prefect_error.type = "PrefectHTTPStatusError"
            /\ prefect_error.request = httpx_error.request
            /\ prefect_error.response = httpx_error.response
            /\ ~parsed.ok => prefect_error.message = httpx_error.message
            /\ parsed.ok =>
                   prefect_error.message =
                       join(<<lines[1], ResponseLine(parsed.value)>> \o Tail(lines))

C20_WitnessClosed ==
    /\ inner_exit
    /\ blocks = <<>>
    /\ _closed
    /\ _exit_stack.aexit = 1

----------------------------------------------------------------------------
(* Properties of the API methods                                           *)

\* the positions in requests of the requests with the given method
RequestsWith(method) == {k \in 1..Len(requests) : requests[k].method = method}

\* the word none in any letter case
IsNoneWord(text) ==
    /\ Len(text) = 4
    /\ text[1] \in {"n", "N"} /\ text[2] \in {"o", "O"}
    /\ text[3] \in {"n", "N"} /\ text[4] \in {"e", "E"}

\* schedule(d, s) has returned
ScheduleReturned ==
    /\ api_call.op = "schedule"
    /\ api_call.pc = "done"
    /\ api_result.kind = "returned"

C21_WitnessCron ==
    /\ ScheduleReturned
    /\ api_call.schedule \in Crons
    /\ Len(api_call.schedules) = 2
    /\ Len(requests) = 4
    /\ requests[4].method = "POST"

\* a method with the not-found mapping has ended
MethodEnded ==
    /\ api_call.op \in NotFoundMethods
    /\ api_call.pc = "done"
    /\ api_call.answers = 1

\* the mapping of error statuses: 404 raises ObjectNotFound, any other error
\* status raises the HTTPStatusError of that response
ErrorsMapped ==
    /\ api_call.status = 404 =>
           /\ api_result.kind = "raised"
           /\ api_result.exc.type = "ObjectNotFound"
    /\ (api_call.status >= 400 /\ api_call.status # 404) =>
           /\ api_result.kind = "raised"
           /\ api_result.exc = [type |-> "HTTPStatusError", status |-> api_call.status]

\* C22 (404 maps to ObjectNotFound): delete_deployment, read_deployment,
\* read_deployment_by_name and delete_deployment_schedule of a
\* PrefectCloudClient, whose _client is the httpx.AsyncClient its __init__
\* constructs, raise ObjectNotFound when the API answers 404 and raise the
\* HTTPStatusError of the response for any other error status.
C22_NotFoundMapping ==
    (MethodEnded /\ _client = "httpx.AsyncClient") => ErrorsMapped

\* the same mapping for a client that calls raise_for_status on every
\* response
NotFoundMappingWhenRaising ==
    (MethodEnded /\ _client = "PrefectHttpxAsyncClient") => ErrorsMapped

\* C23 (bounded work): no call sends more than N+1 times, and the calls of
\* one task never nest deeper than a request and the token fetch made for
\* it: a token fetch starts no token fetch of its own.
C23_BoundedWork ==
    \A t \in AllTasks :
        /\ \A i \in 1..Len(stack[t]) : stack[t][i].sends <= MaxAttempts
        /\ Len(stack[t]) <= 2
        /\ \A i \in 1..Len(stack[t]) :
               stack[t][i].kind = "token" => stack[t][i].fetches = 0

\* a token fetch made by a token fetch made by a token fetch
C23_NestedFetches ==
    \E t \in AllTasks :
        /\ Len(stack[t]) = MaxRecursion
        /\ \A i \in 2..Len(stack[t]) : stack[t][i].kind = "token"

\* a call whose token fetch has ended hands over to _add_csrf_headers of
\* the call below it in this step
FetchEnds(t) ==
    /\ Len(stack[t]) >= 2
    /\ Top(stack[t]).kind = "token"
    /\ Top(stack[t]).pc = "done"
    /\ Len(stack'[t]) = Len(stack[t]) - 1

\* the answer 404, or 422 with the marker that CSRF protection is disabled
IsDisableAnswer(status, text) ==
    status = 404 \/ (status = 422 /\ text = CsrfDisabledBody)

\* the token fetch that ended as frame c failed, and not with one of the
\* two answers that disable CSRF support
FetchFailed(c) ==
    IF c.outcome = "raised"
    THEN TRUE
    ELSE /\ c.response.status >= 400
         /\ ~IsDisableAnswer(c.response.status, c.response.text)

\* C24 (token-fetch failure propagates): when a token fetch fails other than
\* with 404 or 422 and the disabled marker, the call it was made for ends
\* with an exception, the one the fetch raised if it raised one, and the
\* status error of the failed response (PrefectHTTPStatusError) otherwise;
\* the request is not sent again, CSRF support stays enabled and the cached
\* token and its expiration are left as they were.
C24_FetchFailurePropagates ==
    [][\A t \in AllTasks :
          (FetchEnds(t) /\ FetchFailed(Top(stack[t]))) =>
              LET c == Top(stack[t])
                  p == stack[t][Len(stack[t]) - 1]
                  q == Top(stack'[t])
              IN  /\ q.pc = "done" /\ q.outcome = "raised"
                  /\ q.raised_in = "csrf"
                  /\ q.sends = p.sends
                  /\ IF c.outcome = "raised"
                     THEN q.exc = c.exc
                     ELSE /\ q.exc.type = "PrefectHTTPStatusError"
                          /\ q.exc.status = c.response.status
                  /\ enable_csrf_support /\ enable_csrf_support'
                  /\ csrf_token' = csrf_token
                  /\ csrf_token_expiration' = csrf_token_expiration]_vars

\* the same for a client that raises on all errors
FetchFailurePropagatesWhenRaising ==
    [][raise_on_all_errors =>
          \A t \in AllTasks :
              (FetchEnds(t) /\ FetchFailed(Top(stack[t]))) =>
                  LET c == Top(stack[t])
                      p == stack[t][Len(stack[t]) - 1]
                      q == Top(stack'[t])
                  IN  /\ q.pc = "done" /\ q.outcome = "raised"
                      /\ q.raised_in = "csrf"
                      /\ q.sends = p.sends
                      /\ IF c.outcome = "raised"
                         THEN q.exc = c.exc
                         ELSE /\ q.exc.type = "PrefectHTTPStatusError"
                              /\ q.exc.status = c.response.status
                      /\ enable_csrf_support /\ enable_csrf_support'
                      /\ csrf_token' = csrf_token
                      /\ csrf_token_expiration' = csrf_token_expiration]_vars

\* a refetch after a CSRF rejection was answered 500, and the exception
\* has reached the task
C24_Witness ==
    \E t \in AllTasks :
        /\ raise_on_all_errors
        /\ enable_csrf_support
        /\ stack[t] = <<>>
        /\ result[t].kind = "raised"
        /\ result[t].exc.type = "PrefectHTTPStatusError"
        /\ result[t].exc.status = 500
        /\ csrf_token = NoToken

\* C25 (CSRF rejection loops immediately): a call does not sleep after an
\* attempt that was answered with a CSRF rejection; the backoff sleep follows
\* retryable status codes and retryable exceptions only.
C25_RejectionLoopsImmediately ==
    \A f \in AllFrames :
        (f.pc = "sleep" /\ f.exc_info = NoExc /\ f.response.id = f.try_count)
            => ~IsCsrfRejection(f.response)

\* C26 (backoff chosen by the failing attempt alone): a sleep after an
\* attempt that raised a retryable exception is given the symmetric jitter
\* around 2^k seconds, and the one-sided jitter is given only after an
\* attempt whose own response carried Retry-After.
C26_BackoffByFailingAttempt ==
    \A f \in AllFrames :
        f.pc = "sleep" =>
            /\ f.exc_info # NoExc => f.jitter = "clamped"
            /\ f.jitter = "bounded" =>
                   /\ f.exc_info = NoExc
                   /\ f.response.id = f.try_count
                   /\ HasRetryAfter(f.response)

\* the cancellation is unwinding the calls of task t
Unwinding(t) ==
    \E i \in 1..Len(stack[t]) : stack[t][i].exc.type = "CancelledError"

\* the attempts and token fetches made by the calls in s
Work(s, i) == IF i <= Len(s) THEN s[i].sends + s[i].fetches ELSE 0

\* C27 (cancellation): the cancellation of a task that is suspended in an
\* attempt or in a backoff sleep is never kept in exc_info as a retryable
\* exception; it ends the innermost call, and from then on every step of
\* the task ends the next call with the same exception or hands it to the
\* task, and no call of the task makes another attempt or token fetch.
C27_Cancellation ==
    /\ [](\A f \in AllFrames : f.exc_info.type # "CancelledError")
    /\ [](\A t \in AllTasks :
             Unwinding(t) =>
                 /\ Top(stack[t]).pc = "done"
                 /\ Top(stack[t]).outcome = "raised"
                 /\ Top(stack[t]).exc.type = "CancelledError")
    /\ [][\A t \in AllTasks :
             (Unwinding(t) /\ stack'[t] # stack[t]) =>
                 /\ Len(stack'[t]) = Len(stack[t]) - 1
                 /\ \A i \in 1..Len(stack'[t]) :
                        Work(stack'[t], i) = Work(stack[t], i)
                 /\ IF stack'[t] = <<>>
                    THEN /\ result'[t].kind = "raised"
                         /\ result'[t].exc.type = "CancelledError"
                    ELSE Unwinding(t)']_vars

\* a call cancelled in the middle of its retries, in its second attempt or
\* in the sleep after it: the task has the CancelledError
C27_Witness ==
    \E t \in AllTasks :
        /\ stack[t] = <<>>
        /\ result[t].kind = "raised"
        /\ result[t].exc.type = "CancelledError"
        /\ result[t].exc.id = 2

\* the cancellation has ended a token fetch and not yet the call it was
\* made for
C27_WitnessNested ==
    \E t \in AllTasks :
        /\ Len(stack[t]) = 2
        /\ Unwinding(t)
        /\ stack[t][1].pc = "csrf_pre"

\* the token fetch of task t ends in this step and has returned a token
FetchDelivers(t) ==
    /\ FetchEnds(t)
    /\ Top(stack[t]).outcome = "returned"
    /\ IsTokenBody(Top(stack[t]).response)

\* C28 (concurrent refetch is redundant, not corrupting), for mutating sends
\* of several tasks on one client: the cache changes only by being cleared
\* or by taking the token and the expiration that a token fetch ending in
\* that step returned; headers are attached only as the pair that is cached
\* at that moment, which is a token; every attempt in flight carries a
\* token; and when every task's call has ended the cache holds a token.
C28_ConcurrentRefetch ==
    /\ [][/\ csrf_token' # csrf_token =>
              \/ csrf_token' = NoToken
              \/ \E t \in AllTasks :
                    /\ FetchDelivers(t)
                    /\ csrf_token' = Top(stack[t]).response.token
                    /\ csrf_token_expiration' = Top(stack[t]).response.expiration
          /\ \A t \in AllTasks :
                (/\ stack[t] # <<>> /\ stack'[t] # <<>>
                 /\ stack'[t][1].headers.token # stack[t][1].headers.token)
                    => /\ stack'[t][1].headers.token = csrf_token'
                       /\ stack'[t][1].headers.expiration = csrf_token_expiration'
                       /\ stack'[t][1].headers.client
                       /\ csrf_token' # NoToken]_vars
    /\ [](\A t \in AllTasks :
             (stack[t] # <<>> /\ stack[t][1].sends >= 1) =>
                 /\ stack[t][1].headers.token # NoToken
                 /\ stack[t][1].headers.client)
    /\ []((\A t \in AllTasks : stack[t] = <<>> /\ result[t] # NoResult)
              => csrf_token # NoToken)

\* two token fetches are in flight at once
C28_Witness ==
    /\ \A t \in AllTasks :
           /\ Len(stack[t]) = 2
           /\ stack[t][2].kind = "token"
           /\ stack[t][2].pc = "send"
    /\ csrf_token = NoToken

\* both calls have ended after two fetches, and the cache holds the token of
\* the fetch that ended last
C28_WitnessEnd ==
    /\ \A t \in AllTasks :
           /\ stack[t] = <<>>
           /\ result[t].kind = "returned"
           /\ result[t].response.status = 200
    /\ csrf_token # NoToken

\* C29 (closed client stays closed): once the outermost block has ended and
\* the client is closed, no step changes _context_stack, _started, _closed
\* or the exit stack or opens a block, and every __aenter__ raises
\* RuntimeError; a RuntimeError is raised by a closed client only.
C29_ClosedStaysClosed ==
    /\ [][_closed =>
              /\ _closed'
              /\ _context_stack' = _context_stack
              /\ _started' = _started
              /\ _exit_stack' = _exit_stack
              /\ blocks' = blocks
              /\ refused' \in {refused, refused + 1}]_vars
    /\ [][refused' # refused => (_closed /\ blocks = <<>>)]_vars
    /\ [](_closed => (_started /\ _context_stack = 0 /\ _exit_stack.aexit = 1))

\* a closed client has refused two entries
C29_Witness ==
    /\ _closed
    /\ refused = MaxRefused
    /\ _context_stack = 0
    /\ blocks = <<>>

\* create_work_pool has ended and its POST was answered with a status
CreateEnded(status) ==
    /\ api_call.op = "create_work_pool"
    /\ api_call.pc = "done"
    /\ api_call.status = status

\* the overwrite path: the pool is read, then updated with the provided
\* fields except name and type, then read again, and when these succeed the
\* pool read last is returned
OverwritePath ==
    /\ Len(requests) >= 2
    /\ requests[2].method = "GET" /\ requests[2].route = "/work_pools/{name}"
    /\ Len(requests) >= 3 =>
           /\ requests[3].method = "PATCH"
           /\ requests[3].body = WorkPoolFields \ {"name", "type"}
    /\ Len(requests) >= 4 =>
           /\ requests[4].method = "GET" /\ requests[4].route = "/work_pools/{name}"
    /\ api_result.kind = "returned" =>
           /\ Len(requests) = 4
           /\ api_result.value.kind = "work_pool"

\* C30 (work-pool create with overwrite): when POST /work_pools/ is
\* answered 409, create_work_pool raises ObjectAlreadyExists if overwrite is
\* false; if overwrite is true it does not raise ObjectAlreadyExists but
\* reads the existing pool, updates it without name and type and returns
\* the pool read after the update; any other error status is raised again
\* as the HTTPStatusError of that response.
C30_CreateWithOverwrite ==
    /\ (CreateEnded(409) /\ ~api_call.overwrite) =>
           api_result = Raised("ObjectAlreadyExists", 409)
    /\ (CreateEnded(409) /\ api_call.overwrite) =>
           /\ api_result.exc.type # "ObjectAlreadyExists"
           /\ OverwritePath
    /\ \A status \in {404, 500} :
           CreateEnded(status) => api_result = Raised("HTTPStatusError", status)

\* what create_work_pool does with a client that raises for error statuses:
\* the claimed mapping, except that overwriting ends in the KeyError of
\* read_work_pool's path before any pool is read
CreateWithOverwriteAsCoded ==
    _client = "PrefectHttpxAsyncClient" =>
        /\ (CreateEnded(409) /\ ~api_call.overwrite) =>
               api_result = Raised("ObjectAlreadyExists", 409)
        /\ (CreateEnded(409) /\ api_call.overwrite) =>
               /\ api_result = Raised("KeyError", 0)
               /\ Len(requests) = 1
        /\ \A status \in {404, 500} :
               CreateEnded(status) => api_result = Raised("HTTPStatusError", status)

\* with the client that PrefectCloudClient constructs, a create answered
\* with an error status ends in the validation of the error body
CreateWithPlainClient ==
    (_client = "httpx.AsyncClient" /\ \E status \in {404, 409, 500} : CreateEnded(status))
        => (api_result = Raised("ValidationError", 0) /\ Len(requests) = 1)

====
